---------------------------- MODULE Spec2Model ----------------------------
(***************************************************************************)
(* Model of the realtime feed connection manager of LinkScopes, the React  *)
(* hook useWebSocket (frontend/src/hooks/useWebSocket.ts).                 *)
(*                                                                         *)
(* The hook runs on one event loop.  Every action below is one task of     *)
(* that loop: an effect, a call of the public API, a timer callback, a     *)
(* WebSocket event handler, or the continuation of connect() after one of  *)
(* its two awaits (the health probe, the awaited fallback fetch).          *)
(***************************************************************************)
EXTENDS Integers, Sequences, FiniteSets, TLC

(* Bound of the model: how many connection activities (probes in flight,   *)
(* fallback fetches in flight, pending retry timers, live streams) may     *)
(* exist at once.  It is enforced where the consumer or the periodic check *)
(* would start one more connect().                                         *)
MaxInFlight == 3

(* The same bound where the hook runs in App.tsx, which has more state *)
MaxAppInFlight == 1
MaxScanChains == 2

VARIABLES
    isDevelopment,        \* import.meta.env.DEV, fixed at load time
    phase,                \* "init" (rendered, effects not run), "running", "stopped"
    mounted,              \* isComponentMountedRef.current
    connected,            \* React state `connected`
    socketRef,            \* socketRef.current: 0 (null), a stream slot, or
                          \* ClosedSocket for a WebSocket that has closed
    streams,              \* the WebSockets the hook created, by slot: readyState, its
                          \* connectionTimeout timer, the reason it was closed with;
                          \* the live ones come first, oldest first, and a slot
                          \* that holds no live WebSocket reads CLOSED
    reconnectTimeoutRef,  \* reconnectTimeoutRef.current: 0 (null), or the handle of a
                          \* pending retry timer, given as its place in `timers`
    timers,               \* delays of the pending retry timers, oldest first
    reconnectAttempts,    \* reconnectAttemptsRef.current
    devices,              \* React state `devices`: the value last given to setDevices
    probes,               \* connect() calls awaiting checkServerHealth()
    fetchAwait,           \* connect() calls awaiting fetchDevicesWithFallback() (line 77)
    fetchDetached,        \* fetchDevicesWithFallback() calls started by onclose (line 189)
    intervalActive,       \* the periodic check's setInterval is pending
    isLoading,            \* App.tsx, React state `isLoading`: a scan trigger is awaited
    scanError,            \* App.tsx, React state `scanError`: NoScanError (null) or
                          \* the message recorded
    scanTimers,           \* App.tsx, the pending timers of handleScan's refresh
                          \* requests, oldest first
    mapDevices,           \* NetworkMap.tsx, the `devices` prop of the map
    links,                \* NetworkMap.tsx, the `links` array the drawing effect
                          \* last built
    mapError,             \* NetworkMap.tsx, React state `error`: NoMapError (null)
                          \* or the message recorded
    drawPending,          \* NetworkMap.tsx, the drawing effect (lines 90-316) has
                          \* not yet run for the last render of the map
    renderedConnected,    \* `connected` as the last render read it: the value
                          \* held by the getConnectionStatus that render made
                          \* (lines 257-264)
    checkConnected,       \* `connected` as held by the callback of the periodic
                          \* check (lines 246-250): the value read by the render
                          \* whose effect (lines 244-254) set the interval up
    renderPending,        \* a setter has changed React state and the render of
                          \* the mounted component that follows has not run yet
    failsSinceOpen,       \* history, while running: failed attempts since the last
                          \* successful open
    fallbackFetches       \* history, while running: fallback fetches started since
                          \* the counter last reached the maximum with no stream open

mapVars == << mapDevices, links, mapError, drawPending >>

appVars == << isLoading, scanError, scanTimers, mapVars >>

renderVars == << renderedConnected, checkConnected, renderPending >>

vars == << appVars, renderVars, isDevelopment, phase, mounted, connected, socketRef, streams,
           reconnectTimeoutRef, timers, reconnectAttempts, devices, probes,
           fetchAwait, fetchDetached, intervalActive, failsSinceOpen,
           fallbackFetches >>

----------------------------------------------------------------------------
(* Configuration, useWebSocket.ts lines 16-18 *)

maxReconnectAttempts == IF isDevelopment THEN 10 ELSE 5
initialReconnectDelay == IF isDevelopment THEN 2000 ELSE 1000
maxReconnectDelay == 30000

Min(a, b) == IF a < b THEN a ELSE b

RECURSIVE Pow2(_)
Pow2(n) == IF n <= 0 THEN 1 ELSE 2 * Pow2(n - 1)

(* a backoff that counts attempts from 1 *)
BackoffDelayFromOne(n) == Min(initialReconnectDelay * Pow2(n + 1), maxReconnectDelay)

(* a backoff that forgets the cap of maxReconnectDelay *)
BackoffDelayUncapped(n) == initialReconnectDelay * Pow2(n)

(* The delay both schedulers compute, lines 82-85 and 176-179 *)
BackoffDelay(n) == Min(initialReconnectDelay * Pow2(n), maxReconnectDelay)

----------------------------------------------------------------------------
(* Streams and timers *)

StreamIds == 1 .. MaxInFlight

(* What socketRef.current reads when the WebSocket it holds has closed and *)
(* no longer takes a slot                                                  *)
ClosedSocket == MaxInFlight + 1

NoStream == [readyState |-> "CLOSED", timeoutPending |-> FALSE, closeReason |-> ""]

Live(s) == streams[s].readyState # "CLOSED"
Outstanding(s) == streams[s].readyState \in {"CONNECTING", "OPEN"}

LiveStreams == {s \in StreamIds : Live(s)}
OutstandingStreams == {s \in StreamIds : Outstanding(s)}

(* socketRef.current && socketRef.current.readyState === WebSocket.OPEN *)
SocketOpen == socketRef # 0 /\ streams[socketRef].readyState = "OPEN"

(* The slot of the next `new WebSocket(...)` *)
FreeStream == CHOOSE s \in StreamIds :
                 /\ ~Live(s)
                 /\ \A r \in StreamIds : ~Live(r) => s <= r

(* The slots once the WebSocket in slot s has closed: the later ones move *)
(* up, and a handle h follows the WebSocket it names                      *)
SlotsAfterClose(f, s) ==
    [r \in DOMAIN f |->
        IF r < s \/ r = ClosedSocket THEN f[r]
        ELSE IF r < MaxInFlight THEN f[r + 1] ELSE NoStream]

HandleAfterClose(h, s) ==
    IF h = s THEN ClosedSocket
    ELSE IF h > s /\ h # ClosedSocket THEN h - 1 ELSE h

RemoveAt(tm, i) == SubSeq(tm, 1, i - 1) \o SubSeq(tm, i + 1, Len(tm))

(* window.clearTimeout(h): the pending timer with handle h, if any, is dropped *)
ClearTimeout(tm, h) == IF h \in 1 .. Len(tm) THEN RemoveAt(tm, h) ELSE tm

(* window.setTimeout(retry, delay), lines 89-92 and 183-186; the new handle *)
(* is HandleOfNew(tm)                                                       *)
SetTimeout(tm, d) == Append(tm, d)
HandleOfNew(tm) == Len(tm) + 1

(* The handle h of a timer once the timer at place i has fired: 0 when it  *)
(* was that timer's own handle, which no longer names a pending timer      *)
HandleAfterFire(h, i) == IF h = i THEN 0 ELSE IF h > i THEN h - 1 ELSE h

(* Pending retry timers fire in deadline order: a timer set earlier with a  *)
(* delay that is not longer comes first.                                    *)
MayFire(i) == \A j \in 1 .. (i - 1) : timers[j] > timers[i]

(* What is in flight or pending; bounded by MaxInFlight *)
Activities == probes + fetchAwait + fetchDetached + Len(timers)
                + Cardinality(LiveStreams)

(* Connection State of the spec, as far as the hook's fields show it *)
FallbackActive == mounted /\ ~connected /\ reconnectAttempts >= maxReconnectAttempts

MaxFails == maxReconnectAttempts + 1
Bump(n, cap) == Min(n + 1, cap)

----------------------------------------------------------------------------
(* Payloads.  A JSON value is kept as far as the hook looks at it: whether  *)
(* it is an array, and what its elements are (Device entries of            *)
(* types/types.ts, or anything else).                                      *)

EmptyList   == [isArray |-> TRUE,  items |-> << >>]                \* useState([])
DeviceList  == [isArray |-> TRUE,  items |-> << "device", "device" >>]
MixedList   == [isArray |-> TRUE,  items |-> << "device", "number" >>]
JsonObject  == [isArray |-> FALSE, items |-> << >>]
JsonValues  == {EmptyList, DeviceList, MixedList, JsonObject}

(* Texts a stream message may carry: one that is no JSON, and the JSON of an *)
(* object, of an array with an element that is no device entry, of an array *)
(* of device entries                                                        *)
Payloads == {"<html>", "{\"detail\":\"busy\"}", "[{\"ip\":\"10.0.0.1\"},7]",
             "[{\"ip\":\"10.0.0.1\"},{\"ip\":\"10.0.0.2\"}]"}

(* JSON.parse(event.data), line 148: throws on a text that is no JSON *)
JsonParse(text) ==
    CASE text = "{\"detail\":\"busy\"}" -> [threw |-> FALSE, value |-> JsonObject]
      [] text = "[{\"ip\":\"10.0.0.1\"},7]" -> [threw |-> FALSE, value |-> MixedList]
      [] text = "[{\"ip\":\"10.0.0.1\"},{\"ip\":\"10.0.0.2\"}]" ->
            [threw |-> FALSE, value |-> DeviceList]
      [] OTHER -> [threw |-> TRUE, value |-> EmptyList]

(* Array.isArray(data), line 149 *)
IsArray(v) == v.isArray

(* The spec's well-formed snapshot: a sequence of device entries *)
WellFormed(v) == v.isArray /\ \A i \in 1 .. Len(v.items) : v.items[i] = "device"

(* What a GET of /api/devices can come to: fetch() rejects (network error, *)
(* abort by timeout), or a response arrives with a status and a body text  *)
HttpOutcomes ==
    {[rejects |-> TRUE, ok |-> FALSE, text |-> ""],
     [rejects |-> FALSE, ok |-> FALSE, text |-> "{\"detail\":\"busy\"}"],
     [rejects |-> FALSE, ok |-> TRUE, text |-> "<html>"],
     [rejects |-> FALSE, ok |-> TRUE, text |-> "[{\"ip\":\"10.0.0.1\"},7]"],
     [rejects |-> FALSE, ok |-> TRUE,
      text |-> "[{\"ip\":\"10.0.0.1\"},{\"ip\":\"10.0.0.2\"}]"]}

(* fetchDevices(), api.ts lines 6-23: it throws on a network error, on a     *)
(* response that is not ok and on a body that is no JSON (response.json()), *)
(* and otherwise resolves to the body's JSON, whatever its shape            *)
FetchDevices(o) ==
    IF o.rejects \/ ~o.ok \/ JsonParse(o.text).threw
    THEN [ok |-> FALSE, body |-> EmptyList]
    ELSE [ok |-> TRUE, body |-> JsonParse(o.text).value]

(* The ends fetchDevices() can come to *)
FetchResults == {FetchDevices(o) : o \in HttpOutcomes}

----------------------------------------------------------------------------
(* The scan of App.tsx (src/unnamed/part_000) *)

(* What the POST of /scan can come to, api.ts lines 28-33: the fetch rejects, *)
(* or the response has a status, a status text (empty over HTTP/2) and a body *)
ScanOutcomes ==
    {[rejects |-> TRUE, ok |-> FALSE, status |-> 0, statusText |-> "", text |-> ""],
     [rejects |-> FALSE, ok |-> FALSE, status |-> 409, statusText |-> "Conflict",
      text |-> "{\"message\":\"scan running\"}"],
     [rejects |-> FALSE, ok |-> FALSE, status |-> 500,
      statusText |-> "Internal Server Error", text |-> "<html>"],
     [rejects |-> FALSE, ok |-> FALSE, status |-> 503, statusText |-> "",
      text |-> "{\"detail\":\"busy\"}"],
     [rejects |-> FALSE, ok |-> TRUE, status |-> 200, statusText |-> "OK",
      text |-> "{\"status\":\"started\"}"]}

(* useState<string | null>(null), App.tsx line 16 *)
NoScanError == "null"

(* api.ts lines 36-37, errorData?.message: the message of a body that is *)
(* JSON and has one, "" (nothing) for any other body                     *)
ErrorDataMessage(text) ==
    IF text = "{\"message\":\"scan running\"}" THEN "scan running" ELSE ""

(* triggerScan(), api.ts lines 25-42: it throws the fetch's error, or for a *)
(* response that is not ok an Error with the body's message, if the body   *)
(* is JSON that has one, and with the status and its text otherwise        *)
TriggerScan(o) ==
    CASE o.rejects -> [threw |-> TRUE, message |-> "Failed to fetch"]
      [] ~o.rejects /\ ~o.ok /\ ErrorDataMessage(o.text) # "" ->
            [threw |-> TRUE, message |-> ErrorDataMessage(o.text)]
      [] ~o.rejects /\ ~o.ok /\ ErrorDataMessage(o.text) = "" ->
            [threw |-> TRUE,
             message |-> "Scan failed: " \o ToString(o.status) \o " " \o o.statusText]
      [] OTHER -> [threw |-> FALSE, message |-> ""]

(* refresh requests one second apart *)
ScanDelaysEven == << 1000, 1000, 1000 >>

(* App.tsx lines 50-65: the delays of the three nested setTimeout calls, *)
(* outermost first                                                       *)
ScanDelays == << 1000, 2000, 3000 >>

(* setTimeout(callback, delay) called at the time `now` after the trigger *)
(* succeeded, by a callback that goes on with the delays in `rest`        *)
ScanTimer(now, rest) ==
    [delay |-> Head(rest), at |-> now + Head(rest), rest |-> Tail(rest)]

----------------------------------------------------------------------------
(* The network map, NetworkMap.tsx.  A device is given by the fields the     *)
(* links are built and drawn from (types.ts): its address, the addresses it  *)
(* is connected to, which may name a device that is not in the list, and     *)
(* whether it is the gateway.                                                *)
MaxDevices == 2
MaxPeers == 2

DeviceAddresses == {"10.0.0.1", "10.0.0.2"}
Addresses == DeviceAddresses \cup {"10.0.0.9"}

SeqsUpTo(S, n) == UNION {[1 .. k -> S] : k \in 0 .. n}

MapDevices == [ip : DeviceAddresses, connected_to : SeqsUpTo(Addresses, MaxPeers),
               is_gateway : BOOLEAN]
Snapshots == SeqsUpTo(MapDevices, MaxDevices)

NoMapError == "null"                                         \* useState(null)

(* lines 117-119: nodeMap, from the address of every device of the list to *)
(* its node; a later device of the same address replaces the earlier one   *)
NodeMap(ds) ==
    [ip \in {ds[i].ip : i \in DOMAIN ds} |->
        ds[CHOOSE i \in DOMAIN ds :
              /\ ds[i].ip = ip
              /\ \A j \in DOMAIN ds : ds[j].ip = ip => j <= i]]

(* a link for every connected_to address *)
HasNodeAlways(nodeMap, targetIp) == TRUE

(* line 125: nodeMap.has(targetIp) *)
HasNode(nodeMap, targetIp) == targetIp \in DOMAIN nodeMap

(* lines 124-131: the links pushed for one device, in the order of its *)
(* connected_to                                                        *)
RECURSIVE LinksTo(_, _, _)
LinksTo(ip, targets, nodeMap) ==
    IF targets = << >>
    THEN << >>
    ELSE (IF HasNode(nodeMap, Head(targets))
          THEN << [source |-> ip, target |-> Head(targets)] >>
          ELSE << >>) \o LinksTo(ip, Tail(targets), nodeMap)

(* lines 122-132: the links pushed for the devices ds, in their order *)
RECURSIVE LinksFrom(_, _)
LinksFrom(ds, nodeMap) ==
    IF ds = << >>
    THEN << >>
    ELSE LinksTo(Head(ds).ip, Head(ds).connected_to, nodeMap)
             \o LinksFrom(Tail(ds), nodeMap)

BuildLinks(ds) == LinksFrom(ds, NodeMap(ds))

(* lines 152-156: the stroke width of a link reads the device of its     *)
(* source and, unless that is the gateway, of its target; nodeMap.get()  *)
(* of an address that is no key is undefined and reading its device      *)
(* throws a TypeError                                                    *)
LinkWidthThrows(l, nodeMap) ==
    \/ l.source \notin DOMAIN nodeMap
    \/ /\ ~nodeMap[l.source].is_gateway
       /\ l.target \notin DOMAIN nodeMap

LinkWidthError == "Cannot read properties of undefined (reading 'device')"

(* lines 239-241: d3.forceLink(links).id(d => d.id) looks both ends of a *)
(* link up among the nodes and throws for an end that is no node         *)
ForceLinkThrows(l, nodeMap) ==
    l.source \notin DOMAIN nodeMap \/ l.target \notin DOMAIN nodeMap

(* the message names the end it did not find, the source looked up first *)
ForceLinkError(l, nodeMap) ==
    "node not found: " \o (IF l.source \notin DOMAIN nodeMap THEN l.source
                                                              ELSE l.target)

(* lines 92-315: the message the drawing of the links ls records (line  *)
(* 314), if it throws: the stroke widths are set before the simulation  *)
(* is made, and the first link that throws ends the drawing             *)
DrawError(ls, nodeMap) ==
    IF \E i \in DOMAIN ls : LinkWidthThrows(ls[i], nodeMap)
    THEN LinkWidthError
    ELSE IF \E i \in DOMAIN ls : ForceLinkThrows(ls[i], nodeMap)
    THEN LET first == CHOOSE i \in DOMAIN ls :
                         /\ ForceLinkThrows(ls[i], nodeMap)
                         /\ \A j \in 1 .. i - 1 : ~ForceLinkThrows(ls[j], nodeMap)
         IN  ForceLinkError(ls[first], nodeMap)
    ELSE NoMapError

----------------------------------------------------------------------------
TypeOK ==
    /\ isDevelopment \in BOOLEAN
    /\ phase \in {"init", "running", "stopped"}
    /\ mounted \in BOOLEAN
    /\ connected \in BOOLEAN
    /\ socketRef \in 0 .. ClosedSocket
    /\ DOMAIN streams = 1 .. ClosedSocket
    /\ ~Live(ClosedSocket)
    /\ \A s \in StreamIds : Live(s) => \A r \in 1 .. s : Live(r)
    /\ reconnectTimeoutRef \in 0 .. MaxInFlight
    /\ reconnectAttempts \in Nat
    /\ devices \in JsonValues
    /\ probes \in 0 .. MaxInFlight
    /\ fetchAwait \in 0 .. MaxInFlight
    /\ fetchDetached \in 0 .. MaxInFlight
    /\ Len(timers) <= MaxInFlight
    /\ intervalActive \in BOOLEAN
    /\ renderedConnected \in BOOLEAN
    /\ checkConnected \in BOOLEAN
    /\ renderPending \in BOOLEAN
    /\ (mounted /\ ~renderPending) => renderedConnected = connected
    /\ isLoading \in BOOLEAN
    /\ scanError \in {NoScanError} \cup {TriggerScan(o).message : o \in ScanOutcomes}
    /\ Len(scanTimers) <= MaxScanChains
    /\ mapDevices \in Snapshots
    /\ \A i \in DOMAIN links : links[i] \in [source : Addresses, target : Addresses]
    /\ drawPending \in BOOLEAN
    /\ mapError \in {NoMapError, LinkWidthError}
                      \cup {"node not found: " \o a : a \in Addresses}

(* State after the first render: useState / useRef initial values, lines 10-15, *)
(* in the build whose import.meta.env.DEV is dev, with the map given the        *)
(* devices ds                                                                   *)
InitWith(dev, ds) ==
    /\ isDevelopment = dev
    /\ phase = "init"
    /\ mounted = TRUE
    /\ connected = FALSE
    /\ socketRef = 0
    /\ streams = [s \in 1 .. ClosedSocket |-> NoStream]
    /\ reconnectTimeoutRef = 0
    /\ timers = << >>
    /\ reconnectAttempts = 0
    /\ devices = EmptyList
    /\ probes = 0
    /\ fetchAwait = 0
    /\ fetchDetached = 0
    /\ intervalActive = FALSE
    /\ renderedConnected = FALSE
    /\ checkConnected = FALSE
    /\ renderPending = FALSE
    /\ isLoading = FALSE
    /\ scanError = NoScanError
    /\ scanTimers = << >>
    /\ mapDevices = ds
    /\ links = << >>
    /\ mapError = NoMapError
    /\ drawPending = TRUE
    /\ failsSinceOpen = 0
    /\ fallbackFetches = 0

(* The map has no devices yet: App.tsx renders it only for a list that is *)
(* not empty (line 211)                                                   *)
InitOf(dev) == InitWith(dev, << >>)


----------------------------------------------------------------------------
(* connect(), lines 54-70: the part that runs before the probe is awaited. *)
(* tm is the list of pending retry timers at the call and h the handle in  *)
(* reconnectTimeoutRef.                                                    *)

(* line 62 and lines 65-67: the two early returns *)
ConnectProceeds == mounted /\ ~SocketOpen

ConnectEntry(tm, h) ==
    /\ timers' = ClearTimeout(tm, h)
    /\ reconnectTimeoutRef' = 0
    /\ probes' = IF ConnectProceeds THEN probes + 1 ELSE probes

(* Room for one more connect() started from outside *)
RoomFor ==
    ConnectProceeds =>
        Activities - Len(timers) + Len(ClearTimeout(timers, reconnectTimeoutRef))
            < MaxInFlight

(* the fallback taken one failure late *)
UseFallbackLate == reconnectAttempts > maxReconnectAttempts

(* line 75: the retry budget is used up, fall back to HTTP *)
UseFallback == reconnectAttempts >= maxReconnectAttempts

(* one retry too many *)
MayRetryOnceMore == reconnectAttempts <= maxReconnectAttempts

(* lines 81, 175 and 247: a retry may still be started *)
MayRetry == reconnectAttempts < maxReconnectAttempts

(* lines 90 and 184: the retry timer's callback counts the attempt it starts *)
AttemptsAfterRetry == reconnectAttempts + 1

(* an open that forgets the reset *)
AttemptsKeptAfterOpen == reconnectAttempts

(* line 138: a successful open resets the counter *)
AttemptsAfterOpen == 0

(* a failed probe that counts itself *)
AttemptsCountedAtProbeFail == reconnectAttempts + 1

(* lines 71-96: a failed probe does not touch the counter *)
AttemptsAfterProbeFail == reconnectAttempts

(* lines 159-191: neither does a close *)
AttemptsAfterClose == reconnectAttempts

----------------------------------------------------------------------------
(* A step in which a setter changes React state (set) is followed by a *)
(* render of the component, if it is mounted; a setter given the value *)
(* the state has is followed by none.  The render is pending until the *)
(* step Render.                                                        *)
RenderAfter(set) ==
    /\ renderPending' = (renderPending \/ (mounted /\ set))
    /\ UNCHANGED << renderedConnected, checkConnected >>

(* Mount: both effects run, lines 220-223 and 244-251 *)
Start ==
    /\ phase = "init"
    /\ phase' = "running"
    /\ mounted' = TRUE
    /\ intervalActive' = TRUE
    /\ ConnectEntry(timers, reconnectTimeoutRef)
    /\ UNCHANGED << appVars, renderVars, isDevelopment, devices, connected, socketRef,
                    streams, reconnectAttempts, fetchAwait, fetchDetached,
                    failsSinceOpen, fallbackFetches >>

(* Unmount: both cleanups run, lines 225-240 and 253 *)
Stop ==
    /\ phase = "running"
    /\ phase' = "stopped"
    /\ mounted' = FALSE
    /\ timers' = ClearTimeout(timers, reconnectTimeoutRef)
    /\ reconnectTimeoutRef' = 0
    /\ streams' = IF SocketOpen
                  THEN [streams EXCEPT ![socketRef].readyState = "CLOSING",
                                       ![socketRef].closeReason = "Component unmounted"]
                  ELSE streams
    /\ socketRef' = 0
    /\ intervalActive' = FALSE
    /\ failsSinceOpen' = 0      \* the histories are those of the running manager
    /\ fallbackFetches' = 0
    /\ renderPending' = FALSE   \* no render of an unmounted component
    /\ UNCHANGED << appVars, isDevelopment, devices, connected, renderedConnected,
                    checkConnected, reconnectAttempts, probes, fetchAwait,
                    fetchDetached >>

(* The cleanups run once more after the unmount, lines 225-240 and 253 *)
StopAgain ==
    /\ phase = "stopped"
    /\ mounted' = FALSE
    /\ timers' = ClearTimeout(timers, reconnectTimeoutRef)
    /\ reconnectTimeoutRef' = 0
    /\ streams' = IF SocketOpen
                  THEN [streams EXCEPT ![socketRef].readyState = "CLOSING",
                                       ![socketRef].closeReason = "Component unmounted"]
                  ELSE streams
    /\ socketRef' = 0
    /\ intervalActive' = FALSE
    /\ UNCHANGED << appVars, renderVars, isDevelopment, devices, phase, connected,
                    reconnectAttempts, probes, fetchAwait, fetchDetached,
                    failsSinceOpen, fallbackFetches >>

(* requestUpdate(), lines 206-216: what the call returns, *)
RequestUpdateReturns == SocketOpen

(* the messages it sends over socketRef.current, line 207, *)
RequestUpdateSends == IF SocketOpen THEN << "get_devices" >> ELSE << >>

(* and whether it calls connect(), lines 212-214 *)
RequestUpdateConnects ==
    /\ ~SocketOpen
    /\ (socketRef = 0 \/ streams[socketRef].readyState = "CLOSED")

(* requestUpdate(), lines 205-217: the call, whoever makes it *)
RequestUpdateCall ==
    /\ phase \in {"running", "stopped"}
    /\ IF RequestUpdateConnects
       THEN RoomFor /\ ConnectEntry(timers, reconnectTimeoutRef)
       ELSE UNCHANGED << timers, reconnectTimeoutRef, probes >>
    /\ UNCHANGED << renderVars, isDevelopment, devices, phase, mounted, connected,
                    socketRef, streams, reconnectAttempts, fetchAwait,
                    fetchDetached, intervalActive, failsSinceOpen,
                    fallbackFetches >>

(* The consumer calls requestUpdate(), App.tsx lines 139-142 *)
RequestUpdate == RequestUpdateCall /\ UNCHANGED appVars

(* line 247: the tick calls connect() *)
PeriodicCheckConnects == ~checkConnected /\ MayRetry /\ mounted

(* One tick of the periodic check, lines 246-251 *)
PeriodicCheck ==
    /\ intervalActive
    /\ IF PeriodicCheckConnects
       THEN RoomFor /\ ConnectEntry(timers, reconnectTimeoutRef)
       ELSE UNCHANGED << timers, reconnectTimeoutRef, probes >>
    /\ UNCHANGED << appVars, renderVars, isDevelopment, devices, phase, mounted, connected,
                    socketRef, streams, reconnectAttempts, fetchAwait,
                    fetchDetached, intervalActive, failsSinceOpen,
                    fallbackFetches >>

(* The probe is a GET of the same URL, lines 24-32; its fetch() also rejects *)
(* when AbortSignal.timeout(3000) aborts it.  It never reads the body: one  *)
(* response of status 200 stands for them all.                              *)
ProbeOutcomes == {o \in HttpOutcomes : o.rejects \/ ~o.ok \/ o.text = "<html>"}

(* a probe without its catch *)
CheckServerHealthNoCatch(o) ==
    IF o.rejects
    THEN [threw |-> TRUE, value |-> FALSE]
    ELSE [threw |-> FALSE, value |-> o.ok]

(* checkServerHealth(), lines 21-38: response.ok, and false from the catch *)
CheckServerHealth(o) ==
    IF o.rejects
    THEN [threw |-> FALSE, value |-> FALSE]
    ELSE [threw |-> FALSE, value |-> o.ok]

(* connect() resumes with isServerHealthy = false, lines 71-96 *)
ProbeFail ==
    /\ probes > 0
    /\ probes' = probes - 1
    /\ reconnectAttempts' = AttemptsAfterProbeFail
    /\ IF UseFallback
       THEN \* line 77; fetchDevicesWithFallback returns at once when unmounted
            /\ fetchAwait' = IF mounted THEN fetchAwait + 1 ELSE fetchAwait
            /\ fallbackFetches' = IF mounted THEN Bump(fallbackFetches, 2)
                                             ELSE fallbackFetches
            /\ UNCHANGED << timers, reconnectTimeoutRef >>
       ELSE /\ IF MayRetry /\ mounted
               THEN /\ timers' = SetTimeout(timers, BackoffDelay(reconnectAttempts))
                    /\ reconnectTimeoutRef' = HandleOfNew(timers)
               ELSE UNCHANGED << timers, reconnectTimeoutRef >>
            /\ UNCHANGED << fetchAwait, fallbackFetches >>
    /\ failsSinceOpen' = IF mounted THEN Bump(failsSinceOpen, MaxFails)
                                    ELSE failsSinceOpen
    /\ UNCHANGED << appVars, renderVars, isDevelopment, devices, phase, mounted, connected,
                    socketRef, streams, fetchDetached, intervalActive >>

(* fetchDevicesWithFallback() called while mounted, lines 41-52: the catch *)
(* turns a fetch that threw into the result false                         *)
FetchDevicesWithFallback(r) == [threw |-> FALSE, value |-> r.ok]

(* a failed fetch that wipes the list *)
DevicesClearedAfterFailedFetch(r) == IF r.ok THEN r.body ELSE EmptyList

(* setDevices(deviceData), lines 45-50: a fetch that resolved replaces the *)
(* list, one that threw leaves it                                          *)
DevicesAfterFetch(r) == IF r.ok THEN r.body ELSE devices

(* connect() resumes after the awaited fallback fetch, which ended with r, *)
(* lines 45-50 and 80-95                                                   *)
FetchAwaitDone(r) ==
    /\ fetchAwait > 0
    /\ fetchAwait' = fetchAwait - 1
    /\ devices' = DevicesAfterFetch(r)
    /\ RenderAfter(r.ok)
    /\ IF MayRetry /\ mounted
       THEN /\ timers' = SetTimeout(timers, BackoffDelay(reconnectAttempts))
            /\ reconnectTimeoutRef' = HandleOfNew(timers)
       ELSE UNCHANGED << timers, reconnectTimeoutRef >>
    /\ UNCHANGED << appVars, isDevelopment, phase, mounted, connected,
                    socketRef, streams, reconnectAttempts, probes,
                    fetchDetached, intervalActive, failsSinceOpen,
                    fallbackFetches >>

(* The fallback fetch started by onclose ends with r, lines 41-52 *)
FetchDetachedDone(r) ==
    /\ fetchDetached > 0
    /\ fetchDetached' = fetchDetached - 1
    /\ devices' = DevicesAfterFetch(r)
    /\ RenderAfter(r.ok)
    /\ UNCHANGED << appVars, isDevelopment, phase, mounted, connected,
                    socketRef, streams, reconnectTimeoutRef, timers,
                    reconnectAttempts, probes, fetchAwait, intervalActive,
                    failsSinceOpen, fallbackFetches >>

(* connect() resumes with isServerHealthy = true, lines 98-125 *)
ProbeOk ==
    /\ probes > 0
    /\ probes' = probes - 1
    /\ LET closed == IF SocketOpen
                     THEN [streams EXCEPT ![socketRef].readyState = "CLOSING",
                                          ![socketRef].closeReason = "Reconnecting"]
                     ELSE streams
           ws == FreeStream
       IN  /\ streams' = [closed EXCEPT ![ws] = [readyState |-> "CONNECTING",
                                                 timeoutPending |-> TRUE,
                                                 closeReason |-> ""]]
           /\ socketRef' = ws
    /\ UNCHANGED << appVars, renderVars, isDevelopment, devices, phase, mounted, connected,
                    reconnectTimeoutRef, timers, reconnectAttempts, fetchAwait,
                    fetchDetached, intervalActive, failsSinceOpen,
                    fallbackFetches >>

(* The probe awaited by connect() ends with outcome o, line 70; were it to *)
(* throw, connect() would end there                                       *)
ProbeDone(o) ==
    LET isServerHealthy == CheckServerHealth(o)
    IN  IF isServerHealthy.threw
        THEN /\ probes > 0
             /\ probes' = probes - 1
             /\ UNCHANGED << appVars, renderVars, isDevelopment, devices, phase, mounted,
                             connected, socketRef, streams, reconnectTimeoutRef,
                             timers, reconnectAttempts, fetchAwait,
                             fetchDetached, intervalActive, failsSinceOpen,
                             fallbackFetches >>
        ELSE IF isServerHealthy.value THEN ProbeOk ELSE ProbeFail

(* A retry timer fires, lines 89-92 and 183-186 *)
RetryTimerFire(i) ==
    /\ MayFire(i)
    /\ reconnectAttempts' = AttemptsAfterRetry
    /\ ConnectEntry(RemoveAt(timers, i), HandleAfterFire(reconnectTimeoutRef, i))
    /\ fallbackFetches' = IF mounted /\ ~connected /\ MayRetry
                             /\ AttemptsAfterRetry >= maxReconnectAttempts
                          THEN 0 ELSE fallbackFetches
    /\ UNCHANGED << appVars, renderVars, isDevelopment, devices, phase, mounted, connected,
                    socketRef, streams, fetchAwait, fetchDetached,
                    intervalActive, failsSinceOpen >>

(* The connection-establish timeout of stream s fires, lines 120-125 *)
ConnTimeoutFire(s) ==
    /\ streams[s].timeoutPending
    /\ streams' = IF streams[s].readyState = "CONNECTING" /\ mounted
                  THEN [streams EXCEPT ![s].timeoutPending = FALSE,
                                       ![s].readyState = "CLOSING",
                                       ![s].closeReason = ""]
                  ELSE [streams EXCEPT ![s].timeoutPending = FALSE]
    /\ UNCHANGED << appVars, renderVars, isDevelopment, devices, phase, mounted, connected,
                    socketRef, reconnectTimeoutRef, timers, reconnectAttempts,
                    probes, fetchAwait, fetchDetached, intervalActive,
                    failsSinceOpen, fallbackFetches >>

(* an open that asks for nothing *)
OnOpenSendsNothing == << >>

(* lines 130-141: the messages the handler sends over ws *)
OnOpenSends == IF mounted THEN << "get_devices" >> ELSE << >>

(* an open that is let stand whether the component is mounted or not *)
StreamLeftOpen(s) ==
    [streams[s] EXCEPT !.readyState = "OPEN", !.timeoutPending = FALSE]

(* lines 128-134: the stream once its handler has cleared the connection *)
(* timeout and, after the unmount, closed it                             *)
StreamAfterOpen(s) ==
    IF ~mounted
    THEN [streams[s] EXCEPT !.readyState = "CLOSING",
                            !.timeoutPending = FALSE,
                            !.closeReason = "Component unmounted"]
    ELSE [streams[s] EXCEPT !.readyState = "OPEN", !.timeoutPending = FALSE]

(* ws.onopen of stream s, lines 127-142 *)
OnOpen(s) ==
    /\ streams[s].readyState = "CONNECTING"
    /\ streams' = [streams EXCEPT ![s] = StreamAfterOpen(s)]
    /\ RenderAfter(~connected)
    /\ IF ~mounted
       THEN UNCHANGED << connected, reconnectAttempts, failsSinceOpen,
                         fallbackFetches >>
       ELSE /\ connected' = TRUE
            /\ reconnectAttempts' = AttemptsAfterOpen
            /\ failsSinceOpen' = 0
            /\ fallbackFetches' = 0
    /\ UNCHANGED << appVars, isDevelopment, devices, phase, mounted, socketRef,
                    reconnectTimeoutRef, timers, probes, fetchAwait,
                    fetchDetached, intervalActive >>

(* lines 145-149: the handler reaches setDevices(data) *)
MessageAccepted(text) ==
    mounted /\ ~JsonParse(text).threw /\ IsArray(JsonParse(text).value)

(* a handler that adds the entries received to those it has *)
DevicesMergedAfterMessage(text) ==
    LET data == JsonParse(text)
    IN  IF mounted /\ ~data.threw /\ IsArray(data.value)
        THEN [isArray |-> TRUE, items |-> devices.items \o data.value.items]
        ELSE devices

(* setDevices(data), lines 145-156: a message handled while mounted whose *)
(* text parses to an array replaces the list                              *)
DevicesAfterMessage(text) ==
    LET data == JsonParse(text)
    IN  IF mounted /\ ~data.threw /\ IsArray(data.value)
        THEN data.value
        ELSE devices

(* a handler that gives up the stream on a text that is no JSON *)
StreamClosedOnBadText(s, text) ==
    IF JsonParse(text).threw
    THEN [streams[s] EXCEPT !.readyState = "CLOSING"]
    ELSE streams[s]

(* lines 144-157: the handler leaves ws as it is, whatever the text; the *)
(* two error paths only log (lines 152 and 155)                          *)
StreamAfterMessage(s, text) == streams[s]

(* ws.onmessage of stream s with event.data = text, lines 144-157; a       *)
(* WebSocket delivers messages only while it is OPEN                       *)
OnMessage(s, text) ==
    /\ streams[s].readyState = "OPEN"
    /\ UNCHANGED << appVars, isDevelopment, phase, mounted, connected,
                    socketRef, reconnectTimeoutRef, timers, reconnectAttempts,
                    probes, fetchAwait, fetchDetached, intervalActive,
                    failsSinceOpen, fallbackFetches >>
    /\ devices' = DevicesAfterMessage(text)
    /\ streams' = [streams EXCEPT ![s] = StreamAfterMessage(s, text)]
    /\ RenderAfter(MessageAccepted(text))

(* ws.onerror of stream s, lines 193-196: it logs, onclose does the rest. *)
(* Its steps change nothing: they are among the stuttering steps that     *)
(* [Next]_vars allows, and Next does not list them.                       *)
OnError(s) ==
    /\ Live(s)
    /\ UNCHANGED vars

(* The close events stream s can deliver.  A stream that never opened, or was *)
(* aborted while connecting, closes abnormally (1006).  A close handshake the *)
(* hook started reports the hook's code and reason, unless the connection     *)
(* drops first.  The peer of an open stream may close it with any reason.     *)
Abnormal == [code |-> 1006, reason |-> ""]

CloseEvents(s) ==
    CASE streams[s].readyState = "CONNECTING" -> {Abnormal}
      [] streams[s].readyState = "OPEN" ->
            {Abnormal, [code |-> 1000, reason |-> ""],
             [code |-> 1000, reason |-> "Component unmounted"]}
      [] streams[s].readyState = "CLOSING" ->
            IF streams[s].closeReason = ""
            THEN {Abnormal}
            ELSE {Abnormal, [code |-> 1000, reason |-> streams[s].closeReason]}
      [] OTHER -> {}

(* the test made for the wrong close reason *)
IntentionalIfReconnecting(ev) == ev.code = 1000 /\ ev.reason = "Reconnecting"

(* line 170 *)
Intentional(ev) == ev.code = 1000 /\ ev.reason = "Component unmounted"

(* ws.onclose of stream s, lines 159-191 *)
OnClose(s, ev) ==
    /\ Live(s)
    /\ ev \in CloseEvents(s)
    /\ streams' = SlotsAfterClose(streams, s)
    /\ reconnectAttempts' = AttemptsAfterClose
    /\ RenderAfter(connected)
    /\ IF ~mounted
       THEN /\ socketRef' = HandleAfterClose(socketRef, s)
            /\ UNCHANGED << connected, timers, reconnectTimeoutRef,
                            fetchDetached, failsSinceOpen, fallbackFetches >>
       ELSE /\ connected' = FALSE
            /\ socketRef' = 0
            /\ IF Intentional(ev)
               THEN UNCHANGED << timers, reconnectTimeoutRef, fetchDetached,
                                 failsSinceOpen >>
                    /\ fallbackFetches' = IF connected THEN 0 ELSE fallbackFetches
               ELSE /\ failsSinceOpen' = Bump(failsSinceOpen, MaxFails)
                    /\ IF MayRetry
                       THEN /\ timers' = SetTimeout(timers, BackoffDelay(reconnectAttempts))
                            /\ reconnectTimeoutRef' = HandleOfNew(timers)
                            /\ UNCHANGED << fetchDetached, fallbackFetches >>
                       ELSE /\ fetchDetached' = fetchDetached + 1
                            /\ fallbackFetches' =
                                  IF connected THEN 1 ELSE Bump(fallbackFetches, 2)
                            /\ UNCHANGED << timers, reconnectTimeoutRef >>
    /\ UNCHANGED << appVars, isDevelopment, devices, phase, mounted, probes,
                    fetchAwait, intervalActive >>

(* getConnectionStatus(), lines 257-264, as the consumer holds it from the *)
(* last render: `connected` is the value that render read, the ref is read *)
(* when the function is called                                             *)
GetConnectionStatus ==
    [connected |-> renderedConnected,
     reconnecting |-> ~renderedConnected /\ reconnectAttempts > 0,
     reconnectAttempt |-> reconnectAttempts,
     maxReconnectAttempts |-> maxReconnectAttempts]

(* The step is followed by a render of the mounted component: it changed    *)
(* React state, by setConnected with a new value (lines 137, 166) or by     *)
(* setDevices (lines 46, 150).  A write to a ref is followed by none.       *)
Rerenders == mounted /\ renderPending'

(* The effect of lines 244-254 is to run: the last render read a           *)
(* `connected` other than the one its callback holds (dependencies, line   *)
(* 254)                                                                    *)
CheckEffectPending == mounted /\ checkConnected # renderedConnected

(* The render that follows a change of React state: the hook's body runs   *)
(* again and makes getConnectionStatus anew over the `connected` it reads  *)
(* (lines 257-264).  The effects of a render run after it, as a task of    *)
(* their own, and before the next render.                                  *)
Render ==
    /\ mounted
    /\ renderPending
    /\ ~CheckEffectPending
    /\ renderedConnected' = connected
    /\ renderPending' = FALSE
    /\ UNCHANGED << appVars, isDevelopment, phase, mounted, connected, socketRef,
                    streams, reconnectTimeoutRef, timers, reconnectAttempts,
                    devices, probes, fetchAwait, fetchDetached, intervalActive,
                    checkConnected, failsSinceOpen, fallbackFetches >>

(* The effect of lines 244-254 runs after a render that read another       *)
(* `connected`: the cleanup clears the interval (line 253) and the effect  *)
(* sets one up whose callback holds the value that render read             *)
CheckEffect ==
    /\ CheckEffectPending
    /\ checkConnected' = renderedConnected
    /\ intervalActive' = TRUE
    /\ UNCHANGED << appVars, isDevelopment, phase, mounted, connected, socketRef,
                    streams, reconnectTimeoutRef, timers, reconnectAttempts,
                    devices, probes, fetchAwait, fetchDetached,
                    renderedConnected, renderPending, failsSinceOpen,
                    fallbackFetches >>

(* Line 271: reconnectAttempt is reconnectAttemptsRef.current as read when  *)
(* the hook's body runs, that is at a render.  After a step the consumer    *)
(* holds the counter as the step left it (attempts) if a render follows,    *)
(* and the value it held before (returned) if none does.                    *)
ReturnedAttempt(returned, rerender, attempts) ==
    IF rerender THEN attempts ELSE returned

----------------------------------------------------------------------------
(* The scan of App.tsx.  hookVars are the variables of the hook. *)
hookVars == << isDevelopment, phase, mounted, connected, socketRef, streams,
               reconnectTimeoutRef, timers, reconnectAttempts, devices, probes,
               fetchAwait, fetchDetached, intervalActive, failsSinceOpen,
               fallbackFetches >>

(* handleScan() up to its await, App.tsx lines 36-42; the button is *)
(* disabled while isLoading (line 177)                              *)
HandleScan ==
    /\ phase = "running"
    /\ ~isLoading
    /\ isLoading' = TRUE
    /\ scanError' = NoScanError
    /\ RenderAfter(TRUE)
    /\ UNCHANGED << scanTimers, mapVars, hookVars >>

(* handleScan() resumes after triggerScan(), which ended with outcome o, *)
(* App.tsx lines 42-70: a scan that was started sets the first timer of  *)
(* its refresh requests, beside those of earlier scans                   *)
TriggerScanDone(o) ==
    /\ isLoading
    /\ IF TriggerScan(o).threw
       THEN /\ scanError' = TriggerScan(o).message
            /\ UNCHANGED scanTimers
       ELSE /\ scanTimers' = Append(scanTimers, ScanTimer(0, ScanDelays))
            /\ UNCHANGED scanError
    /\ isLoading' = FALSE
    /\ RenderAfter(TRUE)
    /\ UNCHANGED << mapVars, hookVars >>

(* The pending timer of the i-th scan is the next of them to fire: a scan *)
(* started earlier whose timer is due no later after its own start fires  *)
(* first                                                                  *)
ScanMayFire(i) ==
    \A j \in 1 .. i - 1 : scanTimers[j].at > scanTimers[i].at

(* The refresh timer of the i-th scan fires, App.tsx lines 50-65: it calls *)
(* requestUpdate() and sets the timer nested in it, if there is one        *)
ScanRefreshFire(i) ==
    /\ i \in 1 .. Len(scanTimers)
    /\ ScanMayFire(i)
    /\ RequestUpdateCall
    /\ LET t == scanTimers[i]
       IN  scanTimers' = IF t.rest = << >>
                         THEN RemoveAt(scanTimers, i)
                         ELSE [scanTimers EXCEPT ![i] = ScanTimer(t.at, t.rest)]
    /\ UNCHANGED << isLoading, scanError, mapVars >>

----------------------------------------------------------------------------
Next ==
    \/ Start
    \/ Stop
    \/ StopAgain
    \/ RequestUpdate
    \/ PeriodicCheck
    \/ \E o \in ProbeOutcomes : ProbeDone(o)
    \/ \E r \in FetchResults : FetchAwaitDone(r)
    \/ \E r \in FetchResults : FetchDetachedDone(r)
    \/ \E i \in 1 .. Len(timers) : RetryTimerFire(i)
    \/ \E s \in StreamIds : ConnTimeoutFire(s)
    \/ \E s \in StreamIds : OnOpen(s)
    \/ \E s \in StreamIds : \E text \in Payloads : OnMessage(s, text)
    \/ \E s \in StreamIds : \E ev \in CloseEvents(s) : OnClose(s, ev)
    \/ Render
    \/ CheckEffect

(* The production build *)
Init == InitOf(FALSE)
Spec == Init /\ [][Next]_vars

(* The production build in App.tsx, which scans.  The connect() calls *)
(* under way at a time are kept to MaxAppInFlight: a call from outside *)
(* that would start one more is put off.  So is a scan while the       *)
(* refresh requests of MaxScanChains scans are pending.                *)
AppRoomFor(connects) ==
    (connects /\ ConnectProceeds) => Activities < MaxAppInFlight

NextApp ==
    \/ Start
    \/ Stop
    \/ StopAgain
    \/ AppRoomFor(RequestUpdateConnects) /\ RequestUpdate
    \/ AppRoomFor(PeriodicCheckConnects) /\ PeriodicCheck
    \/ \E o \in ProbeOutcomes : ProbeDone(o)
    \/ \E r \in FetchResults : FetchAwaitDone(r)
    \/ \E r \in FetchResults : FetchDetachedDone(r)
    \/ \E i \in 1 .. Len(timers) : RetryTimerFire(i)
    \/ \E s \in StreamIds : ConnTimeoutFire(s)
    \/ \E s \in StreamIds : OnOpen(s)
    \/ \E s \in StreamIds : \E text \in Payloads : OnMessage(s, text)
    \/ \E s \in StreamIds : \E ev \in CloseEvents(s) : OnClose(s, ev)
    \/ Render
    \/ CheckEffect
    \/ Len(scanTimers) < MaxScanChains /\ HandleScan
    \/ \E o \in ScanOutcomes : TriggerScanDone(o)
    \/ \E i \in 1 .. Len(scanTimers) :
          AppRoomFor(RequestUpdateConnects) /\ ScanRefreshFire(i)

SpecApp == Init /\ [][NextApp]_vars

(* Both builds, production and development *)
InitProfiles == \E dev \in BOOLEAN : InitOf(dev)
SpecProfiles == InitProfiles /\ [][Next]_vars

(* The drawing effect of NetworkMap runs, lines 90-316.  For an empty list *)
(* it returns at line 91, and so it does with an error recorded, when the  *)
(* component renders the message in place of the svg (lines 318-324):      *)
(* what an earlier run drew is left as it is.                              *)
DrawMap ==
    /\ IF mapDevices = << >> \/ mapError # NoMapError
       THEN UNCHANGED << links, mapError >>
       ELSE /\ links' = BuildLinks(mapDevices)
            /\ mapError' = DrawError(links', NodeMap(mapDevices))
    /\ drawPending' = FALSE
    /\ UNCHANGED << mapDevices, isLoading, scanError, scanTimers, renderVars,
                    hookVars >>

(* The parent renders the map with the list ds, App.tsx lines 211-216 and  *)
(* NetworkMap.tsx line 28: the map holds ds and what an earlier effect     *)
(* drew stays in the svg until the effect (dependency `devices`, line 316) *)
(* runs for ds.  The effects of a render run before the next render.       *)
RenderMap(ds) ==
    /\ ~drawPending
    /\ mapDevices' = ds
    /\ drawPending' = TRUE
    /\ UNCHANGED << links, mapError, isLoading, scanError, scanTimers, renderVars,
                    hookVars >>

(* The map alone, rendered with any list of devices and drawn *)
InitLinks == \E ds \in Snapshots : InitWith(FALSE, ds)
NextLinks ==
    \/ DrawMap
    \/ \E ds \in Snapshots : RenderMap(ds)
SpecLinks == InitLinks /\ [][NextLinks]_vars


----------------------------------------------------------------------------
(* Pending timers of every kind *)
RetryTimersPending == Len(timers)
EstablishTimersPending == Cardinality({s \in StreamIds : streams[s].timeoutPending})

(* C1: at every instant at most one stream is connecting or open. *)
C1_AtMostOneOutstandingStream == Cardinality(OutstandingStreams) <= 1

(* C2: at every instant at most one retry timer is pending. *)
C2_AtMostOneRetryTimer == RetryTimersPending <= 1

(* C3: once stop() has run, no retry timer, no connection-establish timeout *)
(* timer and no periodic-check timer is pending.                            *)
C3_StopLeavesNoTimer ==
    phase = "stopped" =>
        /\ RetryTimersPending = 0
        /\ EstablishTimersPending = 0
        /\ ~intervalActive

(* C4: once stop() has run, no stream is connecting or open. *)
C4_StopLeavesNoStream == phase = "stopped" => OutstandingStreams = {}

(* C6: the Retry Counter stays within 0 .. maxAttempts. *)
C6_CounterBounded ==
    reconnectAttempts >= 0 /\ reconnectAttempts <= maxReconnectAttempts


----------------------------------------------------------------------------
(* Steps, told from the two states they join *)

(* onopen of stream s ran *)
Opened(s) ==
    /\ streams[s].readyState = "CONNECTING"
    /\ streams' = [streams EXCEPT ![s].readyState = "OPEN",
                                  ![s].timeoutPending = FALSE]

(* a failed attempt was handled: a negative probe, or a close that does not *)
(* carry the intentional-shutdown reason                                    *)
FailureHandled ==
    \/ ProbeFail
    \/ /\ streams' # streams
       /\ \E s \in StreamIds : \E ev \in CloseEvents(s) :
             ~Intentional(ev) /\ OnClose(s, ev)

FetchesInFlight == fetchAwait + fetchDetached
FetchStarted == FetchesInFlight' = FetchesInFlight + 1
RetryScheduled == Len(timers') = Len(timers) + 1

(* C5: right after a stream open handled while the manager is running, *)
(* the Retry Counter is 0.                                             *)
C5_OpenResetsCounter ==
    [][\A s \in StreamIds : (mounted /\ Opened(s)) => reconnectAttempts' = 0]_vars

(* a stream opened while running after the counter had reached 1: a retry *)
(* scheduled at the delay for 1 is still pending, the counter reads 0 and *)
(* the tracked stream is open                                             *)
C5_Witness ==
    /\ mounted /\ connected /\ SocketOpen
    /\ reconnectAttempts = 0 /\ failsSinceOpen = 0
    /\ timers = << BackoffDelay(1) >>

(* C7 as stated: at any moment the counter equals the number of failed *)
(* attempts since the last successful connection, up to the maximum.   *)
C7_CounterEqualsFailures ==
    mounted => reconnectAttempts = Min(failsSinceOpen, maxReconnectAttempts)

(* C7 amended: the counter counts the retries started.  Handling a failed  *)
(* attempt leaves it unchanged; it changes only by the reset to 0 of an    *)
(* open, and by one each time a retry timer fires.                         *)
C7_CounterCountsRetries ==
    [][ /\ reconnectAttempts' = reconnectAttempts \/ ~FailureHandled
        /\ (\E i \in 1 .. Len(timers) : RetryTimerFire(i))
              => reconnectAttempts' = reconnectAttempts + 1
        /\ reconnectAttempts' # reconnectAttempts =>
              \/ reconnectAttempts' = 0 /\ \E s \in StreamIds : Opened(s)
              \/ /\ reconnectAttempts' = reconnectAttempts + 1
                 /\ \E i \in 1 .. Len(timers) : RetryTimerFire(i)
      ]_vars

(* two attempts failed, one retry has fired, the next is pending *)
C7_Witness ==
    /\ mounted /\ failsSinceOpen = 2 /\ reconnectAttempts = 1
    /\ timers = << BackoffDelay(1) >>

(* C8 as stated: after maxAttempts consecutive failed attempts the manager *)
(* is in FallbackActive, with the fallback fetch issued and no retry left. *)
C8_FallbackAfterMaxFailures ==
    (mounted /\ failsSinceOpen >= maxReconnectAttempts) =>
        /\ FallbackActive
        /\ fallbackFetches >= 1

(* C8 amended: a failed attempt handled while the manager is running with  *)
(* the counter at maxAttempts or above schedules no retry in that step and *)
(* starts the fallback fetch; one handled with the counter below           *)
(* maxAttempts schedules a retry and starts no fetch.  The counter counts  *)
(* retries, so in a serial run that is failure maxAttempts+1.              *)
C8_FallbackAtCounterMax ==
    [][ (mounted /\ FailureHandled) =>
           IF reconnectAttempts >= maxReconnectAttempts
           THEN timers' = timers /\ FetchStarted
           ELSE RetryScheduled /\ FetchesInFlight' = FetchesInFlight
      ]_vars

(* the serial run: maxAttempts retries were started and failure number *)
(* maxAttempts+1 has started the one fallback fetch, no retry pending  *)
C8_Witness ==
    /\ FallbackActive
    /\ failsSinceOpen = maxReconnectAttempts + 1
    /\ reconnectAttempts = maxReconnectAttempts
    /\ fallbackFetches = 1 /\ FetchesInFlight = 1
    /\ timers = << >> /\ probes = 0

(* C9 as stated: one fallback fetch per stay in FallbackActive.  From the *)
(* failure that starts the fetch to the successful connection that ends  *)
(* the stay no further fetch is started, whatever refresh requests,      *)
(* probe completions or closes occur: the count of the stay is at most 1. *)
C9_OneFetchPerFallbackStay == FallbackActive => fallbackFetches <= 1

(* C9 amended: fallback fetches go with failed attempts, not with stays.   *)
(* A fetch is started exactly when a failed attempt is handled while the   *)
(* manager is running and the counter is at maxAttempts or above, one per  *)
(* such failure; a stay in FallbackActive sees none, one or several.       *)
C9_OneFetchPerFailureAtMax ==
    [][ /\ FetchesInFlight' <= FetchesInFlight + 1
        /\ FetchStarted <=>
              (mounted /\ reconnectAttempts >= maxReconnectAttempts /\ FailureHandled)
      ]_vars

(* a second fallback fetch within one stay in FallbackActive *)
C9_Witness == FallbackActive /\ fallbackFetches = 2

(* The delay of the spec's backoff policy, min(initialDelay * 2^n, maxDelay), *)
(* with the figures of the two profiles                                       *)
PolicyDelay(n) ==
    LET initialDelay == IF isDevelopment THEN 2000 ELSE 1000
        raw == initialDelay * (2 ^ n)
    IN  IF raw <= 30000 THEN raw ELSE 30000

PolicyMaxAttempts == IF isDevelopment THEN 10 ELSE 5

(* C10 as stated: a retry is scheduled at the policy's delay for n, n the *)
(* number of consecutive failures that preceded the failure handled.      *)
C10_DelayByFailures ==
    [][ RetryScheduled => timers'[Len(timers')] = PolicyDelay(failsSinceOpen) ]_vars

(* C10 amended: a retry is scheduled at the policy's delay for n, n the  *)
(* value of the Retry Counter when it is scheduled, 0 <= n < maxAttempts; *)
(* so a retry scheduled with the counter at 0 waits initialDelay and no   *)
(* delay exceeds maxDelay, in both profiles.                              *)
C10_DelayByCounter ==
    [][ RetryScheduled =>
           /\ reconnectAttempts \in 0 .. (PolicyMaxAttempts - 1)
           /\ timers'[Len(timers')] = PolicyDelay(reconnectAttempts)
           /\ timers'[Len(timers')] <= 30000
      ]_vars

(* the development profile has scheduled a retry at the capped delay *)
C10_Witness ==
    /\ isDevelopment /\ reconnectAttempts >= 4
    /\ timers = << 30000 >>

----------------------------------------------------------------------------
(* The intentional-shutdown marker of the spec *)
ShutdownMarker(ev) == ev.code = 1000 /\ ev.reason = "Component unmounted"

(* C11: handling a close with code 1000 and reason "Component unmounted"  *)
(* schedules no retry timer, starts no connection attempt (no probe, no   *)
(* stream) and issues no fallback fetch.                                  *)
C11_IntentionalCloseNoReconnect ==
    [][ \A s \in StreamIds : \A ev \in CloseEvents(s) :
           (ShutdownMarker(ev) /\ OnClose(s, ev)) =>
               /\ timers' = timers
               /\ probes' = probes
               /\ FetchesInFlight' = FetchesInFlight
               /\ Cardinality(LiveStreams') = Cardinality(LiveStreams) - 1
      ]_vars

(* an open stream was closed with the marker while the manager is running: *)
(* nothing failed since the open, and yet nothing is in flight or pending  *)
C11_Witness ==
    /\ phase = "running" /\ ~connected /\ socketRef = 0
    /\ failsSinceOpen = 0 /\ reconnectAttempts = 0
    /\ Activities = 0

(* C12: a connection attempt whose probe reports unreachable opens no    *)
(* stream and goes to retry scheduling: while the manager is running and *)
(* the counter is below the maximum, that step schedules a retry at the  *)
(* backoff delay of the counter, which is 1000 ms at counter 0 in the    *)
(* default profile.                                                      *)
C12_ProbeFailSchedulesRetry ==
    [][ ProbeFail =>
           /\ streams' = streams
           /\ socketRef' = socketRef
           /\ (mounted /\ reconnectAttempts < PolicyMaxAttempts) =>
                 /\ RetryScheduled
                 /\ timers'[Len(timers')] = PolicyDelay(reconnectAttempts)
                 /\ (~isDevelopment /\ reconnectAttempts = 0) =>
                        timers'[Len(timers')] = 1000
      ]_vars

(* the first attempt after start() has failed and no stream was created: *)
(* the retry waits 1000 ms                                               *)
C12_Witness ==
    /\ phase = "running" /\ ~isDevelopment
    /\ failsSinceOpen = 1 /\ reconnectAttempts = 0
    /\ timers = << 1000 >> /\ reconnectTimeoutRef = 1
    /\ probes = 0 /\ LiveStreams = {} /\ socketRef = 0

(* C13: the manager does not stay on fallback for good.  In FallbackActive, *)
(* with no refresh request, a way back to the stream is always under way:  *)
(* a probe or a stream attempt is in flight, a retry is pending, or the    *)
(* next tick of the periodic check starts a probe.                         *)
C13_FallbackKeepsProbing ==
    (FallbackActive /\ intervalActive) =>
        \/ PeriodicCheckConnects
        \/ probes > 0
        \/ timers # << >>
        \/ OutstandingStreams # {}

(* C14: once the counter has reached the maximum and the fallback has      *)
(* begun, the manager stops attempting the stream on its own: while the    *)
(* state is FallbackActive no retry timer fires (a retry timer that fires  *)
(* starts a connection attempt, which opens a stream if the probe is       *)
(* positive).                                                              *)
C14_NoRetryInFallback ==
    [][ (FallbackActive /\ fallbackFetches >= 1) =>
           ~(\E i \in 1 .. Len(timers) : RetryTimerFire(i))
      ]_vars

(* C15: requestSnapshotRefresh() called while the stream is Connected (the *)
(* manager reports connected and a stream it opened is open) sends exactly *)
(* one 'get_devices' over the open stream, returns success, and starts no  *)
(* connection attempt; a call that does not call connect() changes nothing. *)
C15_RefreshWhileConnected ==
    (phase = "running" /\ connected
        /\ \E s \in StreamIds : streams[s].readyState = "OPEN") =>
        /\ RequestUpdateReturns
        /\ RequestUpdateSends = << "get_devices" >>
        /\ ~RequestUpdateConnects

(* C16: requestSnapshotRefresh() called in any state where the manager is *)
(* running and the stream is not connected returns the failure indicator  *)
(* in the same call, sends nothing, and triggers the connection logic: it *)
(* calls connect().                                                       *)
C16_RefreshWhileNotConnected ==
    (phase = "running" /\ ~connected) =>
        /\ ~RequestUpdateReturns
        /\ RequestUpdateSends = << >>
        /\ RequestUpdateConnects

(* A payload the spec calls malformed: a text that is no JSON, or JSON    *)
(* that is not a well-formed sequence of device entries                  *)
Malformed(text) ==
    LET data == JsonParse(text) IN data.threw \/ ~WellFormed(data.value)

(* C17: handling a malformed inbound payload leaves the device list as it *)
(* was.                                                                   *)
C17_MalformedPayloadRejected ==
    [][ \A s \in StreamIds : \A text \in Payloads :
           (Malformed(text) /\ OnMessage(s, text)) => devices' = devices
      ]_vars

(* The manager is probing, connecting or connected *)
AttemptUnderWay == probes > 0 \/ OutstandingStreams # {}

(* C18: the start/connect logic invoked again while the manager is already *)
(* probing, connecting or connected is a no-op: no step taken in such a    *)
(* state starts another probe.                                             *)
C18_ConnectIdempotent ==
    [][ (mounted /\ AttemptUnderWay) => probes' <= probes ]_vars

(* C19: a second stop() after a first one changes nothing: no timer is *)
(* scheduled or cancelled, no stream is created or closed, and no field *)
(* of the manager changes.                                              *)
C19_SecondStopChangesNothing ==
    [][ StopAgain => UNCHANGED vars ]_vars

(* A successful ingestion of snapshot v: a well-formed stream message     *)
(* handled while the manager is running, or a fallback fetch that resolved *)
Ingested(v) ==
    \/ \E s \in StreamIds : \E text \in Payloads :
          /\ mounted /\ ~Malformed(text) /\ JsonParse(text).value = v
          /\ OnMessage(s, text)
    \/ \E r \in FetchResults :
          /\ r.ok /\ r.body = v
          /\ (FetchAwaitDone(r) \/ FetchDetachedDone(r))

(* C20: every successful ingestion replaces the visible device list by the *)
(* snapshot ingested, in that one step, and the list is replaced by no     *)
(* other step.                                                             *)
C20_OneUpdatePerIngestion ==
    [][ /\ \A v \in JsonValues : Ingested(v) => devices' = v
        /\ devices' # devices => Ingested(devices')
      ]_vars

----------------------------------------------------------------------------
(* The response o carries a well-formed snapshot: it arrived, its status is *)
(* successful and its body is a sequence of device entries                  *)
WellFormedResponse(o) ==
    /\ ~o.rejects
    /\ o.ok
    /\ ~JsonParse(o.text).threw
    /\ WellFormed(JsonParse(o.text).value)

(* a fallback fetch in flight ends with response o *)
FetchEnds(o) ==
    FetchAwaitDone(FetchDevices(o)) \/ FetchDetachedDone(FetchDevices(o))

(* C21: the polling fallback fetch fails whenever the request errors, the   *)
(* status is not successful or the body is not a well-formed snapshot, and *)
(* it returns a snapshot only when the response is well-formed.             *)
C21_FetchFailsUnlessWellFormed ==
    [][ \A o \in HttpOutcomes :
           FetchEnds(o) => (FetchDevices(o).ok <=> WellFormedResponse(o))
      ]_vars

(* C22: the transport probe never throws and yields a boolean for every     *)
(* outcome: connect() goes on to open a stream only after a successful      *)
(* response, and handles a failed probe after any other response, a network *)
(* error or a timeout.                                                      *)
C22_ProbeNeverThrows ==
    [][ \A o \in ProbeOutcomes :
           ProbeDone(o) =>
              /\ ~CheckServerHealth(o).threw
              /\ CheckServerHealth(o).value \in BOOLEAN
              /\ IF ~o.rejects /\ o.ok THEN ProbeOk ELSE ProbeFail
      ]_vars

(* a first probe found the server unreachable, the retry's probe reachable *)
C22_Witness ==
    /\ phase = "running"
    /\ failsSinceOpen = 1
    /\ reconnectAttempts = 1
    /\ probes = 0
    /\ timers = << >>
    /\ Cardinality(LiveStreams) = 1
    /\ socketRef \in StreamIds
    /\ streams[socketRef].readyState = "CONNECTING"

(* C23: the retry count exposed to the consumer is the current Retry       *)
(* Counter whenever the consumer reads it, also right after a retry timer  *)
(* has incremented the counter: getConnectionStatus() reports the counter, *)
(* and a consumer that holds the counter's value as reconnectAttempt       *)
(* before a step holds the counter's value after it.                       *)
C23_ExposedAttemptIsCurrent ==
    [][ /\ GetConnectionStatus'.reconnectAttempt = reconnectAttempts'
        /\ ReturnedAttempt(reconnectAttempts, Rerenders, reconnectAttempts')
              = reconnectAttempts'
      ]_vars

(* C24: on every successful stream open handled while the manager is       *)
(* running, the state becomes Connected and exactly one initial snapshot   *)
(* request ("get_devices") is sent over that stream in the same step.      *)
C24_OpenConnectsAndRequests ==
    [][ \A s \in StreamIds :
           (mounted /\ Opened(s)) =>
              /\ connected'
              /\ streams'[s].readyState = "OPEN"
              /\ OnOpenSends = << "get_devices" >>
      ]_vars

(* the first stream has just opened: no snapshot has come in yet *)
C24_Witness ==
    /\ phase = "running"
    /\ connected
    /\ SocketOpen
    /\ Cardinality(LiveStreams) = 1
    /\ reconnectAttempts = 0
    /\ devices = EmptyList
    /\ Activities = 1

(* C25: every stream that has not reached the open state by its           *)
(* connection-establish deadline is aborted, so no stream stays in the    *)
(* connecting state: a stream that is connecting has its deadline ahead.  *)
C25_NoStreamConnectingPastDeadline ==
    \A s \in StreamIds :
        streams[s].readyState = "CONNECTING" => streams[s].timeoutPending

(* C26: while the periodic check is running, every tick at which the state *)
(* is not Connected and the Retry Counter has not exceeded the maximum     *)
(* re-attempts the connection, and a tick at which the state is Connected  *)
(* does nothing: if it calls connect() at all, the call starts no probe    *)
(* and clears no timer.                                                    *)
C26_PeriodicCheckReattempts ==
    intervalActive =>
        /\ (~connected /\ reconnectAttempts <= maxReconnectAttempts)
              => PeriodicCheckConnects
        /\ (connected /\ PeriodicCheckConnects)
              => /\ ~ConnectProceeds
                 /\ reconnectTimeoutRef = 0
                 /\ ClearTimeout(timers, reconnectTimeoutRef) = timers

(* C27: a malformed inbound payload leaves the connection unaffected:      *)
(* handling it changes neither the connection state, the tracked stream,  *)
(* the Retry Counter nor any timer, and the stream stays open.             *)
C27_MalformedLeavesConnection ==
    [][ \A s \in StreamIds :
           streams[s].readyState = "OPEN" =>
              \A text \in Payloads :
                 (OnMessage(s, text) /\ Malformed(text)) =>
                    /\ UNCHANGED << connected, socketRef, streams,
                                    reconnectAttempts, timers,
                                    reconnectTimeoutRef, intervalActive,
                                    probes, fetchAwait, fetchDetached >>
                    /\ streams'[s].readyState = "OPEN"
      ]_vars

(* connected, and the list shown is a malformed array taken from the stream *)
C27_Witness ==
    /\ phase = "running"
    /\ connected
    /\ SocketOpen
    /\ devices = MixedList
    /\ reconnectAttempts = 0
    /\ failsSinceOpen = 0
    /\ Activities = 1

(* C28: a failed fallback fetch driven by the manager is absorbed: it      *)
(* raises no exception to the consumer, leaves the visible snapshot        *)
(* unchanged and is not retried by the fetch itself (the fetch ends, none  *)
(* is started, the connection is as before); a stream error changes       *)
(* nothing by itself.                                                      *)
C28_FailedFetchAbsorbed ==
    [][ /\ \A r \in FetchResults :
              (~r.ok /\ (FetchAwaitDone(r) \/ FetchDetachedDone(r))) =>
                 /\ ~FetchDevicesWithFallback(r).threw
                 /\ devices' = devices
                 /\ FetchesInFlight' = FetchesInFlight - 1
                 /\ UNCHANGED << connected, socketRef, streams,
                                 reconnectAttempts, probes >>
        /\ \A s \in StreamIds : OnError(s) => UNCHANGED vars
      ]_vars

(* the serial run into fallback, whose one fetch has failed: the list is *)
(* still the initial one, no fetch, probe or retry is under way          *)
C28_Witness ==
    /\ FallbackActive
    /\ failsSinceOpen = maxReconnectAttempts + 1
    /\ fallbackFetches = 1
    /\ FetchesInFlight = 0
    /\ devices = EmptyList
    /\ timers = << >>
    /\ probes = 0

(* An ingestion event completes: the handler of a stream message takes *)
(* its payload in, or a fallback fetch resolves                        *)
MessageIngested(s, text) == OnMessage(s, text) /\ MessageAccepted(text)
FetchIngested(r) == r.ok /\ (FetchAwaitDone(r) \/ FetchDetachedDone(r))

(* C29: the visible snapshot is the initial empty list or exactly the      *)
(* complete payload of the most recently completed ingestion event: each   *)
(* ingestion event, in the order they complete, replaces the whole list by *)
(* its payload, and nothing else changes the list.                         *)
C29_LastSnapshotWins ==
    [][ /\ \A s \in StreamIds :
              streams[s].readyState = "OPEN" =>
                 \A text \in Payloads :
                    MessageIngested(s, text) => devices' = JsonParse(text).value
        /\ \A r \in FetchResults : FetchIngested(r) => devices' = r.body
        /\ devices' # devices =>
              \/ \E s \in StreamIds : \E text \in Payloads : MessageIngested(s, text)
              \/ \E r \in FetchResults : FetchIngested(r)
      ]_vars

(* connected over the one stream, which has delivered a device list *)
C29_Witness ==
    /\ phase = "running"
    /\ connected
    /\ SocketOpen
    /\ devices = DeviceList
    /\ failsSinceOpen = 0
    /\ Activities = 1

----------------------------------------------------------------------------
(* The refresh timer due at time `at` after the trigger fires, and leaves *)
(* the pending refresh timers `then`                                      *)
RefreshAt(i, at, then) ==
    /\ scanTimers[i].at = at
    /\ ScanRefreshFire(i)
    /\ scanTimers' = then

(* C30: a successful scan trigger is followed by exactly three refresh      *)
(* requests, issued in order 1 s, 3 s and 6 s after the trigger succeeded: *)
(* its success sets the first timer and nothing else does, each timer's    *)
(* firing calls requestUpdate() and sets the next, the third sets none.    *)
(* A failed trigger sets no timer, requests no refresh and records a scan  *)
(* error.  The timers of another scan are left as they are.                *)
C30_ScanRefreshesStaggered ==
    [][ /\ isLoading =>
              \A o \in ScanOutcomes :
                 TriggerScanDone(o) =>
                    IF TriggerScan(o).threw
                    THEN /\ scanTimers' = scanTimers
                         /\ scanError' # NoScanError
                         /\ UNCHANGED hookVars
                    ELSE /\ Len(scanTimers') = Len(scanTimers) + 1
                         /\ SubSeq(scanTimers', 1, Len(scanTimers)) = scanTimers
                         /\ scanTimers'[Len(scanTimers')].at = 1000
                         /\ scanError' = NoScanError
        /\ \A i \in 1 .. Len(scanTimers) :
              ScanRefreshFire(i) =>
                 /\ RequestUpdateCall
                 /\ \/ RefreshAt(i, 1000, [scanTimers EXCEPT
                                              ![i] = ScanTimer(1000, << 2000, 3000 >>)])
                          /\ scanTimers'[i].at = 3000
                    \/ RefreshAt(i, 3000, [scanTimers EXCEPT
                                              ![i] = ScanTimer(3000, << 3000 >>)])
                          /\ scanTimers'[i].at = 6000
                    \/ RefreshAt(i, 6000, RemoveAt(scanTimers, i))
        /\ scanTimers' # scanTimers =>
              \/ \E i \in 1 .. Len(scanTimers) : ScanRefreshFire(i)
              \/ \E o \in ScanOutcomes : ~TriggerScan(o).threw /\ TriggerScanDone(o)
      ]_vars

(* the third refresh request of a scan is pending, due 6 s after its     *)
(* trigger, beside the second of a scan started while it was under way   *)
C30_Witness ==
    /\ Len(scanTimers) = 2
    /\ scanTimers[1].at = 6000
    /\ scanTimers[1].delay = 3000
    /\ scanTimers[2].at = 3000
    /\ ~isLoading
    /\ scanError = NoScanError

----------------------------------------------------------------------------
(* The links a list of devices stands for: the pairs of a device's address *)
(* and an address it is connected to that is the address of a device of    *)
(* the same list                                                           *)
LinkPairs(ds) ==
    UNION {{<< ds[i].ip, peer >> :
               peer \in {ds[i].connected_to[j] : j \in DOMAIN ds[i].connected_to}
                            \cap {ds[k].ip : k \in DOMAIN ds}} :
           i \in DOMAIN ds}

LinkSet(ls) == {<< ls[i].source, ls[i].target >> : i \in DOMAIN ls}

Dangling(ds) ==
    \E i \in DOMAIN ds : \E j \in DOMAIN ds[i].connected_to :
        ds[i].connected_to[j] \notin DOMAIN NodeMap(ds)

(* C31: for every list of devices, the links built from it are exactly the *)
(* pairs (device address, connected address) whose connected address is    *)
(* the address of a device of the same list, and drawing them records no   *)
(* error: a connected address that is not in the list gives no link        *)
C31_DanglingPeersTolerated ==
    /\ [](/\ LinkSet(BuildLinks(mapDevices)) = LinkPairs(mapDevices)
          /\ mapError = NoMapError)
    /\ [][(DrawMap /\ mapDevices # << >>) =>
             LinkSet(links') = LinkPairs(mapDevices)]_vars

(* a list with a dangling address and a resolved one has been drawn *)
C31_Witness ==
    /\ Dangling(mapDevices)
    /\ links # << >>
    /\ links = BuildLinks(mapDevices)
    /\ Len(mapDevices) = MaxDevices
    /\ mapError = NoMapError

----------------------------------------------------------------------------
(* C32: in every reachable state `connected` is true exactly when         *)
(* socketRef.current is a WebSocket whose readyState is OPEN, so that a    *)
(* requestUpdate() made while connected is reported true returns true     *)
C32_ConnectedAgreesWithStream ==
    mounted => /\ connected <=> SocketOpen
               /\ connected => RequestUpdateReturns

----------------------------------------------------------------------------
(* C33: after the unmount the device list is never modified again: no    *)
(* message of a stream and no fallback fetch, in flight at the unmount or *)
(* completing later, replaces it                                          *)
C33_SnapshotFrozenAfterStop ==
    [][phase = "stopped" => devices' = devices]_vars

----------------------------------------------------------------------------
(* The close or the connection timeout of stream s is the event of a    *)
(* superseded stream: the mounted hook tracks another, live stream       *)
Superseded(s) ==
    /\ mounted
    /\ Live(s)
    /\ socketRef \in StreamIds
    /\ socketRef # s
    /\ Live(socketRef)

(* C34: when a stream that is not the one in socketRef.current closes or *)
(* times out, socketRef.current and `connected` are left as they are and *)
(* no retry timer is scheduled                                           *)
C34_SupersededStreamIsInert ==
    [][\A s \in StreamIds :
          (Superseded(s) /\ (ConnTimeoutFire(s) \/ \E ev \in CloseEvents(s) : OnClose(s, ev)))
              => /\ socketRef' # 0
                 /\ connected' = connected
                 /\ Len(timers') <= Len(timers)]_vars

----------------------------------------------------------------------------
(* Stream s is open and a step of the hook calls close() on it.  No close *)
(* event is delivered in the step, so that s keeps its slot.              *)
ClosedByManager(s) ==
    /\ streams[s].readyState = "OPEN"
    /\ \A r \in StreamIds : Live(r) => streams'[r].readyState # "CLOSED"
    /\ streams'[s].readyState = "CLOSING"

(* C35: while the hook is mounted it never closes a stream that is open: *)
(* an open stream is closed by the hook only in the cleanup, for every   *)
(* interleaving of connect() calls, periodic checks and refresh requests *)
C35_OpenStreamClosedOnlyByStop ==
    [][\A s \in StreamIds : ClosedByManager(s) => Stop]_vars

----------------------------------------------------------------------------
(* The close handshake of stream s was started by the hook with the *)
(* reason of the unmount                                            *)
ClosingForUnmount(s) ==
    /\ streams[s].readyState = "CLOSING"
    /\ streams[s].closeReason = "Component unmounted"

(* C36: a stream that opens after the unmount is closed at once with code *)
(* 1000 and reason "Component unmounted" and has no other effect:         *)
(* `connected` is not set, the retry counter is not reset and nothing is  *)
(* sent, and the close that follows is taken for the intentional one and  *)
(* schedules nothing                                                      *)
C36_OpenAfterStopIsClosed ==
    [][~mounted =>
          \A s \in StreamIds :
              /\ (streams[s].readyState = "CONNECTING" /\ OnOpen(s))
                    => /\ ClosingForUnmount(s)'
                       /\ [code |-> 1000, reason |-> "Component unmounted"]
                              \in CloseEvents(s)'
                       /\ OnOpenSends = << >>
                       /\ connected' = connected
                       /\ reconnectAttempts' = reconnectAttempts
                       /\ UNCHANGED << socketRef, devices, timers, reconnectTimeoutRef,
                                       probes, fetchAwait, fetchDetached >>
              /\ (ClosingForUnmount(s) /\ \E ev \in CloseEvents(s) : OnClose(s, ev))
                    => /\ connected' = connected
                       /\ reconnectAttempts' = reconnectAttempts
                       /\ UNCHANGED << devices, timers, reconnectTimeoutRef,
                                       probes, fetchAwait, fetchDetached >>]_vars

(* after the unmount a stream is closing with the reason of the unmount *)
(* that was still connecting when the cleanup ran or was created later   *)
C36_Witness ==
    /\ phase = "stopped"
    /\ ~connected
    /\ reconnectAttempts > 0
    /\ \E s \in StreamIds : ClosingForUnmount(s) /\ socketRef = s

=============================================================================
